---- MODULE Spec2Model ----
(***************************************************************************)
(* The persistence layer of finsight: the accounts, categories and         *)
(* transactions tables of src-tauri/src/database, the statements each      *)
(* database function issues against the SQLite pool, and the Tauri         *)
(* commands of main.rs that return each function's result to the caller.   *)
(*                                                                         *)
(* A table is a function from the ids of its rows to the rows.  Every      *)
(* sqlx statement is one atomic step.  delete_category issues up to six    *)
(* statements and run_migrations up to three, so each is a process with a  *)
(* program counter; every other function issues one statement.             *)
(*                                                                         *)
(* Spec runs the commands one at a time on the seeded database, LedgerSpec *)
(* the account and transaction commands alone, MigrationSpec the starts of *)
(* the application on a new database, ConcurrentSpec two commands whose    *)
(* statements interleave.                                                   *)
(***************************************************************************)
EXTENDS Integers, Sequences, FiniteSets, TLC

\* Bounds of the model: the largest AUTOINCREMENT id each table hands out.
MaxCatId == 3
MaxTxId == 1
MaxAccId == 1
\* The largest transaction id in the specification of accounts and
\* transactions alone.
MaxLedgerTxId == 2
\* The largest account id in the specification of the migrations.
MaxMigrationAccId == 2

\* Option<i64>::None, SQL NULL (ids start at 1).
NULL == 0

\* The callers (Tauri command invocations) that may be in flight.
Procs == {1, 2}
\* The callers of the sequential specification.
SeqProcs == {1}

\* Inputs.
CategoryNames == {"Uncategorized", "Food"}
\* The ids a caller passes for a table whose sequence stands at seq: those of
\* the rows inserted so far (present or deleted) and the id of the next insert,
\* which no row has had.
Ids(seq) == 1..(seq + 1)
ParentIds(seq) == {NULL} \cup Ids(seq)
AccountNames == {"Test Account"}
AccountTypes == {"checking"}
TransactionInputs ==
    { [amount_cents |-> 1000, transaction_type |-> "debit",
       description |-> "Original Description", transaction_date |-> "2025-01-01"],
      [amount_cents |-> 2000, transaction_type |-> "credit",
       description |-> "Updated Description", transaction_date |-> "2025-01-02"] }
\* Whether the storage engine fails a statement (pool, file lock, disk).  A
\* failed statement changes nothing and its error is returned; the model
\* injects it where it separates statements, in delete_category.
Faults == BOOLEAN

VARIABLES
    categories,    \* table categories: id -> [name, parent_id]
    cat_seq,       \* sqlite_sequence of categories (AUTOINCREMENT)
    accounts,      \* table accounts: id -> [name, account_type, archived]
    acc_seq,       \* sqlite_sequence of accounts
    transactions,  \* table transactions: id -> [account_id, ..., category_id]
    tx_seq,        \* sqlite_sequence of transactions
    pc,            \* per caller: the statement its call issues next
    call,          \* per caller: the command in flight and its arguments
    locals,        \* per caller: the local variables of the function running
    result,        \* per caller: the Result the command returns
    log,           \* per caller: the statements the call issued, with outcomes
    pre,           \* per caller: the tables when delete_category was called
    migrations,    \* table migrations: the migration_name of each row
    archived_column, \* whether table accounts has the column archived
    account_fk     \* the table transactions.account_id REFERENCES

db == <<categories, cat_seq, accounts, acc_seq, transactions, tx_seq>>
schema == <<migrations, archived_column, account_fk>>
vars == <<categories, cat_seq, accounts, acc_seq, transactions, tx_seq,
          pc, call, locals, result, log, pre, migrations, archived_column, account_fk>>

NoCall == [op |-> "none"]
NoLocals == [children |-> {}, parent_id |-> NULL, uncategorized_id |-> NULL,
             applied_migrations |-> {}, migration |-> 0, rows |-> <<>>]
NoPre == [categories |-> <<>>, transactions |-> <<>>, accounts |-> <<>>]
Tables == [categories |-> categories, transactions |-> transactions, accounts |-> accounts]

Min(S) == CHOOSE x \in S : \A y \in S : x <= y

----------------------------------------------------------------------------
(* The schema of create_tables: the foreign keys SQLite enforces (sqlx     *)
(* opens every connection with foreign_keys = ON).                          *)

\* Faulty variant: the foreign key on parent_id is not enforced.
CategoryParentFkOff(ids, parent_id) == TRUE

\* categories.parent_id REFERENCES categories(id); NULL references nothing.
CategoryParentFk(ids, parent_id) == parent_id = NULL \/ parent_id \in ids

\* Faulty variant: the foreign key on category_id is not enforced.
TransactionCategoryFkOff(ids, category_id) == TRUE

\* transactions.category_id INTEGER NOT NULL REFERENCES categories(id).
TransactionCategoryFk(ids, category_id) == category_id \in ids

\* The tables create_tables creates.
TableNames == {"migrations", "accounts", "categories", "transactions"}

\* transactions.account_id INTEGER NOT NULL REFERENCES <table>(id).
\* create_tables of database/mod.rs spells the parent table "accounds", a
\* table that does not exist; database.rs declares FOREIGN KEY (account_id)
\* REFERENCES accounts(id), and the tests of transactions.rs and
\* categories.rs insert transactions for account 1 and expect Ok.  The model
\* covers a database of either schema.
AccountFkTables == {"accounds", "accounts"}
TransactionAccountFk(ids, account_id) == account_id \in ids

\* With foreign keys on, SQLite does not prepare a statement that has to
\* check a key whose parent table is missing ("no such table"): every INSERT
\* and DELETE on the child table, and every UPDATE that sets the key column.
AccountFkPrepare == IF account_fk \in TableNames THEN "Ok" ELSE "NoSuchTable"

\* Faulty variant: only the transactions' foreign key guards the row.
CategoryRowReferencedByTransaction(cats, txs, id) ==
    \E t \in DOMAIN txs : txs[t].category_id = id

\* A category row cannot be removed while another row references it: a
\* transaction, or a category other than the row itself.
CategoryRowReferenced(cats, txs, id) ==
    \/ \E t \in DOMAIN txs : txs[t].category_id = id
    \/ \E c \in DOMAIN cats : c # id /\ cats[c].parent_id = id

----------------------------------------------------------------------------
(* Bookkeeping of a call.                                                   *)

Issue(p, stmt, outcome) ==
    log' = [log EXCEPT ![p] = Append(@, [stmt |-> stmt, outcome |-> outcome])]

\* The call ends: its last statement had this outcome, it returns res.
Finish(p, stmt, outcome, res) ==
    /\ Issue(p, stmt, outcome)
    /\ pc' = [pc EXCEPT ![p] = "done"]
    /\ result' = [result EXCEPT ![p] = res]
    /\ locals' = [locals EXCEPT ![p] = NoLocals]

\* Faulty variant: the error of the failed statement is swallowed.
PropagateSwallowed(p, stmt, outcome) == Finish(p, stmt, outcome, "Ok")

\* The ? operator: a failed statement ends the call with that error.
Propagate(p, stmt, outcome) == Finish(p, stmt, outcome, outcome)

\* A function of one statement: the call ends with the statement's outcome.
SingleStatement(p, c, stmt, outcome) ==
    /\ pc[p] = "idle"
    /\ call' = [call EXCEPT ![p] = c]
    /\ Issue(p, stmt, outcome)
    /\ pc' = [pc EXCEPT ![p] = "done"]
    /\ result' = [result EXCEPT ![p] = outcome]
    /\ UNCHANGED <<locals, pre, schema>>

----------------------------------------------------------------------------
(* Categories.                                                              *)

\* Faulty variant: parent_id is not bound, the row is inserted as a root.
InsertCategoryRowAsRoot(cats, new, name, parent_id) ==
    [c \in DOMAIN cats \cup {new} |->
        IF c = new THEN [name |-> name, parent_id |-> NULL] ELSE cats[c]]

\* INSERT INTO categories (name, parent_id) VALUES (?, ?), the row getting
\* the id new from AUTOINCREMENT.
InsertCategoryRow(cats, new, name, parent_id) ==
    [c \in DOMAIN cats \cup {new} |->
        IF c = new THEN [name |-> name, parent_id |-> parent_id] ELSE cats[c]]

add_category(p, name, parent_id) ==
    LET new == cat_seq + 1
        outcome == IF ~CategoryParentFk(DOMAIN categories \cup {new}, parent_id)
                   THEN "Constraint" ELSE "Ok"
    IN /\ SingleStatement(p, [op |-> "add_category", name |-> name, parent_id |-> parent_id],
                          "insert_category", outcome)
       /\ IF outcome = "Ok"
          THEN /\ categories' = InsertCategoryRow(categories, new, name, parent_id)
               /\ cat_seq' = new
          ELSE UNCHANGED <<categories, cat_seq>>
       /\ UNCHANGED <<accounts, acc_seq, transactions, tx_seq>>

\* Faulty variant: the UPDATE has lost its WHERE clause.
UpdateEveryCategoryRow(cats, category_id, name, parent_id) ==
    [c \in DOMAIN cats |-> [name |-> name, parent_id |-> parent_id]]

\* UPDATE categories SET name = ?, parent_id = ? WHERE id = ?
UpdateCategoryRow(cats, category_id, name, parent_id) ==
    [c \in DOMAIN cats |->
        IF c = category_id THEN [name |-> name, parent_id |-> parent_id] ELSE cats[c]]

update_category(p, category_id, name, parent_id) ==
    LET found == category_id \in DOMAIN categories
        outcome == IF found /\ ~CategoryParentFk(DOMAIN categories, parent_id)
                   THEN "Constraint" ELSE "Ok"
    IN /\ SingleStatement(p, [op |-> "update_category", category_id |-> category_id,
                               name |-> name, parent_id |-> parent_id],
                          "update_category", outcome)
       /\ IF outcome = "Ok" /\ found
          THEN categories' = UpdateCategoryRow(categories, category_id, name, parent_id)
          ELSE UNCHANGED categories
       /\ UNCHANGED <<cat_seq, accounts, acc_seq, transactions, tx_seq>>

----------------------------------------------------------------------------
(* delete_category: handle_orphaned_categories, handle_orphaned_transactions *)
(* and the DELETE, one statement a step.                                     *)

\* SELECT id FROM categories WHERE parent_id = ?
ChildrenOf(cats, category_id) ==
    {c \in DOMAIN cats : cats[c].parent_id = category_id}

\* Faulty variant: the parent of the deleted category is not looked up.
ParentOfNone(cats, category_id) == NULL

\* SELECT parent_id FROM categories WHERE id = ?; None when no row comes back.
ParentOf(cats, category_id) ==
    IF category_id \in DOMAIN cats THEN cats[category_id].parent_id ELSE NULL

\* Faulty variant: the UPDATE has lost its WHERE clause.
ReparentEveryRow(cats, category_id, parent_id) ==
    [c \in DOMAIN cats |-> [cats[c] EXCEPT !.parent_id = parent_id]]

\* Faulty variant: the UPDATE writes no row.
ReparentNoRow(cats, category_id, parent_id) == cats

\* UPDATE categories SET parent_id = ? WHERE parent_id = ?
Reparent(cats, category_id, parent_id) ==
    [c \in DOMAIN cats |->
        IF cats[c].parent_id = category_id
        THEN [cats[c] EXCEPT !.parent_id = parent_id]
        ELSE cats[c]]

\* SELECT id FROM categories WHERE name = 'Uncategorized', fetch_one: the
\* first row of the scan in rowid order.
\* Faulty variant: the SELECT has lost its WHERE clause.
AllCategoryRows(cats) == DOMAIN cats
UncategorizedRows(cats) == {c \in DOMAIN cats : cats[c].name = "Uncategorized"}
\* Faulty variant: the seeded id is taken for the id of "Uncategorized".
UncategorizedIdSeeded(cats) == 1
UncategorizedId(cats) == Min(UncategorizedRows(cats))

\* Faulty variant: the UPDATE has lost its WHERE clause.
ReassignEveryRow(txs, category_id, uncategorized_id) ==
    [t \in DOMAIN txs |-> [txs[t] EXCEPT !.category_id = uncategorized_id]]

\* UPDATE transactions SET category_id = ? WHERE category_id = ?
Reassign(txs, category_id, uncategorized_id) ==
    [t \in DOMAIN txs |->
        IF txs[t].category_id = category_id
        THEN [txs[t] EXCEPT !.category_id = uncategorized_id]
        ELSE txs[t]]

\* DELETE FROM categories WHERE id = ?
DeleteCategoryRow(cats, category_id) ==
    [c \in DOMAIN cats \ {category_id} |-> cats[c]]

\* The outcome of the DELETE: no row is no error, a referenced row is one.
DeleteRowOutcome(cats, txs, category_id) ==
    IF category_id \in DOMAIN cats /\ CategoryRowReferenced(cats, txs, category_id)
    THEN "Constraint" ELSE "Ok"

\* Faulty variant: the re-parenting is skipped whatever the children.
AfterSelectChildrenSkip(children) == "select_uncategorized"

\* handle_orphaned_categories returns early when there are no children, and
\* delete_category goes on to handle_orphaned_transactions; with children
\* the function goes on to read the parent.
AfterSelectChildren(children) ==
    IF children = {} THEN "select_uncategorized" ELSE "select_parent"

select_children(p, category_id, fault) ==
    /\ pc[p] = "idle"
    /\ call' = [call EXCEPT ![p] = [op |-> "delete_category", category_id |-> category_id]]
    /\ pre' = [pre EXCEPT ![p] = Tables]
    /\ IF fault
       THEN Propagate(p, "select_children", "Io")
       ELSE /\ Issue(p, "select_children", "Ok")
            /\ locals' = [locals EXCEPT ![p].children = ChildrenOf(categories, category_id)]
            \* if children.is_empty() { return Ok(()) }
            /\ pc' = [pc EXCEPT ![p] =
                         AfterSelectChildren(ChildrenOf(categories, category_id))]
            /\ UNCHANGED result
    /\ UNCHANGED <<db, schema>>

select_parent(p, fault) ==
    /\ pc[p] = "select_parent"
    /\ IF fault
       THEN Propagate(p, "select_parent", "Io")
       ELSE /\ Issue(p, "select_parent", "Ok")
            /\ locals' = [locals EXCEPT ![p].parent_id =
                             ParentOf(categories, call[p].category_id)]
            /\ pc' = [pc EXCEPT ![p] = "update_children"]
            /\ UNCHANGED result
    /\ UNCHANGED <<db, call, pre, schema>>

update_children(p, fault) ==
    LET category_id == call[p].category_id
        parent_id == locals[p].parent_id
        outcome == IF fault THEN "Io"
                   ELSE IF ChildrenOf(categories, category_id) # {}
                           /\ ~CategoryParentFk(DOMAIN categories, parent_id)
                        THEN "Constraint" ELSE "Ok"
    IN /\ pc[p] = "update_children"
       /\ IF outcome # "Ok"
          THEN /\ Propagate(p, "update_children", outcome)
               /\ UNCHANGED categories
          ELSE /\ Issue(p, "update_children", "Ok")
               /\ categories' = Reparent(categories, category_id, parent_id)
               /\ pc' = [pc EXCEPT ![p] = "select_uncategorized"]
               /\ UNCHANGED <<result, locals>>
       /\ UNCHANGED <<cat_seq, accounts, acc_seq, transactions, tx_seq, call, pre, schema>>

select_uncategorized(p, fault) ==
    LET outcome == IF fault THEN "Io"
                   ELSE IF UncategorizedRows(categories) = {} THEN "RowNotFound" ELSE "Ok"
    IN /\ pc[p] = "select_uncategorized"
       /\ IF outcome # "Ok"
          THEN Propagate(p, "select_uncategorized", outcome)
          ELSE /\ Issue(p, "select_uncategorized", "Ok")
               /\ locals' = [locals EXCEPT ![p].uncategorized_id = UncategorizedId(categories)]
               /\ pc' = [pc EXCEPT ![p] = "update_transactions"]
               /\ UNCHANGED result
       /\ UNCHANGED <<db, call, pre, schema>>

update_transactions(p, fault) ==
    LET category_id == call[p].category_id
        uncategorized_id == locals[p].uncategorized_id
        rows == {t \in DOMAIN transactions : transactions[t].category_id = category_id}
        outcome == IF fault THEN "Io"
                   ELSE IF rows # {} /\ ~TransactionCategoryFk(DOMAIN categories, uncategorized_id)
                        THEN "Constraint" ELSE "Ok"
    IN /\ pc[p] = "update_transactions"
       /\ IF outcome # "Ok"
          THEN /\ Propagate(p, "update_transactions", outcome)
               /\ UNCHANGED transactions
          ELSE /\ Issue(p, "update_transactions", "Ok")
               /\ transactions' = Reassign(transactions, category_id, uncategorized_id)
               /\ pc' = [pc EXCEPT ![p] = "delete_row"]
               /\ UNCHANGED <<result, locals>>
       /\ UNCHANGED <<categories, cat_seq, accounts, acc_seq, tx_seq, call, pre, schema>>

delete_row(p, fault) ==
    LET category_id == call[p].category_id
        outcome == IF fault THEN "Io"
                   ELSE DeleteRowOutcome(categories, transactions, category_id)
    IN /\ pc[p] = "delete_row"
       /\ IF outcome # "Ok"
          THEN /\ Propagate(p, "delete_row", outcome)
               /\ UNCHANGED categories
          ELSE \* Ok(())
               /\ Finish(p, "delete_row", "Ok", "Ok")
               /\ categories' = DeleteCategoryRow(categories, category_id)
       /\ UNCHANGED <<cat_seq, accounts, acc_seq, transactions, tx_seq, call, pre, schema>>

----------------------------------------------------------------------------
(* Accounts.                                                                *)

add_account(p, name, account_type) ==
    LET new == acc_seq + 1
        outcome == "Ok"
    IN /\ SingleStatement(p, [op |-> "add_account", name |-> name,
                               account_type |-> account_type],
                          "insert_account", outcome)
       /\ IF outcome = "Ok"
          THEN /\ accounts' = [a \in DOMAIN accounts \cup {new} |->
                                 IF a = new
                                 THEN [name |-> name, account_type |-> account_type,
                                       archived |-> FALSE]
                                 ELSE accounts[a]]
               /\ acc_seq' = new
          ELSE UNCHANGED <<accounts, acc_seq>>
       /\ UNCHANGED <<categories, cat_seq, transactions, tx_seq>>

update_account(p, account_id, name, account_type, archived) ==
    LET found == account_id \in DOMAIN accounts
        \* UPDATE accounts SET name = ?, account_type = ?, archived = ? WHERE id = ?
        outcome == IF archived_column THEN "Ok" ELSE "NoSuchColumn"
    IN /\ SingleStatement(p, [op |-> "update_account", account_id |-> account_id,
                               name |-> name, account_type |-> account_type,
                               archived |-> archived],
                          "update_account", outcome)
       /\ IF outcome = "Ok" /\ found
          THEN accounts' = [accounts EXCEPT ![account_id] =
                               [name |-> name, account_type |-> account_type,
                                archived |-> archived]]
          ELSE UNCHANGED accounts
       /\ UNCHANGED <<categories, cat_seq, acc_seq, transactions, tx_seq>>

----------------------------------------------------------------------------
(* Migrations: run_migrations reads the applied names, then for every name *)
(* of the registry that is not among them executes the migration and       *)
(* records it, two statements.                                              *)

migration_registry == <<"001_add_archived_column">>

\* The position in the registry, from position from on, of the first name
\* that is not in applied; 0 when the loop has run out.
NextMigration(applied, from) ==
    LET todo == {i \in DOMAIN migration_registry :
                    i >= from /\ migration_registry[i] \notin applied}
    IN IF todo = {} THEN 0 ELSE Min(todo)

\* Whether the schema already has the change of the migration.
SchemaChanged(migration_name) ==
    migration_name = "001_add_archived_column" /\ archived_column

get_applied_migrations(p, fault) ==
    /\ pc[p] = "idle"
    /\ call' = [call EXCEPT ![p] = [op |-> "run_migrations"]]
    /\ IF fault
       THEN Propagate(p, "get_applied_migrations", "Io")
       ELSE IF NextMigration(migrations, 1) = 0
            THEN \* nothing to apply: Ok(())
                 Finish(p, "get_applied_migrations", "Ok", "Ok")
            ELSE /\ Issue(p, "get_applied_migrations", "Ok")
                 /\ locals' = [locals EXCEPT
                                  ![p].applied_migrations = migrations,
                                  ![p].migration = NextMigration(migrations, 1)]
                 /\ pc' = [pc EXCEPT ![p] = "execute_migration"]
                 /\ UNCHANGED result
    /\ UNCHANGED <<db, pre, schema>>

\* migration_001_add_archived_column: ALTER TABLE accounts ADD COLUMN archived,
\* which fails when the table has the column.
execute_migration(p, fault) ==
    LET migration_name == migration_registry[locals[p].migration]
        outcome == IF fault THEN "Io"
                   ELSE IF SchemaChanged(migration_name) THEN "DuplicateColumn"
                   ELSE "Ok"
    IN /\ pc[p] = "execute_migration"
       /\ IF outcome # "Ok"
          THEN /\ Propagate(p, "execute_migration", outcome)
               /\ UNCHANGED archived_column
          ELSE /\ Issue(p, "execute_migration", "Ok")
               /\ archived_column' = TRUE
               /\ pc' = [pc EXCEPT ![p] = "record_migration"]
               /\ UNCHANGED <<result, locals>>
       /\ UNCHANGED <<db, call, pre, migrations, account_fk>>

\* record_migration: INSERT INTO migrations (migration_name) VALUES (?), the
\* column being UNIQUE.
record_migration(p, fault) ==
    LET migration_name == migration_registry[locals[p].migration]
        next == NextMigration(locals[p].applied_migrations, locals[p].migration + 1)
        outcome == IF fault THEN "Io"
                   ELSE IF migration_name \in migrations THEN "Constraint"
                   ELSE "Ok"
    IN /\ pc[p] = "record_migration"
       /\ IF outcome # "Ok"
          THEN /\ Propagate(p, "record_migration", outcome)
               /\ UNCHANGED migrations
          ELSE /\ migrations' = migrations \cup {migration_name}
               /\ IF next = 0
                  THEN \* the loop has run out: Ok(())
                       Finish(p, "record_migration", "Ok", "Ok")
                  ELSE /\ Issue(p, "record_migration", "Ok")
                       /\ locals' = [locals EXCEPT ![p].migration = next]
                       /\ pc' = [pc EXCEPT ![p] = "execute_migration"]
                       /\ UNCHANGED result
       /\ UNCHANGED <<db, call, pre, archived_column, account_fk>>

----------------------------------------------------------------------------
(* Transactions.                                                            *)

TransactionRow(account_id, in, category_id) ==
    [account_id |-> account_id, amount_cents |-> in.amount_cents,
     transaction_type |-> in.transaction_type, description |-> in.description,
     transaction_date |-> in.transaction_date, category_id |-> category_id]

add_transaction(p, account_id, in, category_id) ==
    LET new == tx_seq + 1
        outcome == IF AccountFkPrepare # "Ok" THEN AccountFkPrepare
                   ELSE IF ~TransactionAccountFk(DOMAIN accounts, account_id)
                           \/ ~TransactionCategoryFk(DOMAIN categories, category_id)
                        THEN "Constraint" ELSE "Ok"
    IN /\ SingleStatement(p, [op |-> "add_transaction",
                               row |-> TransactionRow(account_id, in, category_id)],
                          "insert_transaction", outcome)
       /\ IF outcome = "Ok"
          THEN /\ transactions' = [t \in DOMAIN transactions \cup {new} |->
                                     IF t = new
                                     THEN TransactionRow(account_id, in, category_id)
                                     ELSE transactions[t]]
               /\ tx_seq' = new
          ELSE UNCHANGED <<transactions, tx_seq>>
       /\ UNCHANGED <<categories, cat_seq, accounts, acc_seq>>

update_transaction(p, transaction_id, account_id, in, category_id) ==
    LET found == transaction_id \in DOMAIN transactions
        outcome == IF AccountFkPrepare # "Ok" THEN AccountFkPrepare
                   ELSE IF found /\ (~TransactionAccountFk(DOMAIN accounts, account_id)
                                     \/ ~TransactionCategoryFk(DOMAIN categories, category_id))
                        THEN "Constraint" ELSE "Ok"
    IN /\ SingleStatement(p, [op |-> "update_transaction", transaction_id |-> transaction_id,
                               row |-> TransactionRow(account_id, in, category_id)],
                          "update_transaction", outcome)
       /\ IF outcome = "Ok" /\ found
          THEN transactions' = [transactions EXCEPT ![transaction_id] =
                                   TransactionRow(account_id, in, category_id)]
          ELSE UNCHANGED transactions
       /\ UNCHANGED <<categories, cat_seq, accounts, acc_seq, tx_seq>>

\* Faulty variant: the DELETE has lost its WHERE clause.
DeleteEveryTransactionRow(txs, transaction_id) == <<>>

\* DELETE FROM transactions WHERE id = ?
DeleteTransactionRow(txs, transaction_id) ==
    [t \in DOMAIN txs \ {transaction_id} |-> txs[t]]

delete_transaction(p, transaction_id) ==
    LET outcome == AccountFkPrepare
    IN /\ SingleStatement(p, [op |-> "delete_transaction", transaction_id |-> transaction_id],
                          "delete_transaction", outcome)
       /\ IF outcome = "Ok"
          THEN transactions' = DeleteTransactionRow(transactions, transaction_id)
          ELSE UNCHANGED transactions
       /\ UNCHANGED <<categories, cat_seq, accounts, acc_seq, tx_seq>>

----------------------------------------------------------------------------
(* Readers: one SELECT, whose rows the function returns.                    *)

\* A function of one SELECT: the rows fetched are returned to the caller.
FetchAll(p, c, stmt, rows) ==
    /\ pc[p] = "idle"
    /\ call' = [call EXCEPT ![p] = c]
    /\ Issue(p, stmt, "Ok")
    /\ pc' = [pc EXCEPT ![p] = "done"]
    /\ result' = [result EXCEPT ![p] = "Ok"]
    /\ locals' = [locals EXCEPT ![p].rows = rows]
    /\ UNCHANGED <<db, pre, schema>>

\* SELECT id, name, parent_id FROM categories
get_all_categories(p) ==
    FetchAll(p, [op |-> "get_all_categories"], "select_categories", categories)

\* SELECT ... FROM transactions WHERE account_id = ?
get_transactions(p, account_id) ==
    FetchAll(p, [op |-> "get_transactions", account_id |-> account_id],
             "select_transactions",
             [t \in {u \in DOMAIN transactions :
                        transactions[u].account_id = account_id} |-> transactions[t]])

----------------------------------------------------------------------------
(* The command bridge of main.rs hands the Result to the caller.            *)

Return(p) ==
    /\ pc[p] = "done"
    /\ pc' = [pc EXCEPT ![p] = "idle"]
    /\ call' = [call EXCEPT ![p] = NoCall]
    /\ locals' = [locals EXCEPT ![p] = NoLocals]
    /\ result' = [result EXCEPT ![p] = "none"]
    /\ log' = [log EXCEPT ![p] = <<>>]
    /\ pre' = [pre EXCEPT ![p] = NoPre]
    /\ UNCHANGED <<db, schema>>

----------------------------------------------------------------------------
(* The database after create_tables, run_migrations and seed_system_data:  *)
(* the tables are empty but for the "Uncategorized" category, id 1, and    *)
(* the row of the migration.                                                *)

\* Faulty variant: initialization seeds no category.
seed_nothing ==
    /\ categories = <<>>
    /\ cat_seq = 0

seed_system_data ==
    /\ categories = (1 :> [name |-> "Uncategorized", parent_id |-> NULL])
    /\ cat_seq = 1

Init ==
    /\ seed_system_data
    /\ accounts = <<>>
    /\ acc_seq = 0
    /\ transactions = <<>>
    /\ tx_seq = 0
    /\ pc = [p \in Procs |-> "idle"]
    /\ call = [p \in Procs |-> NoCall]
    /\ locals = [p \in Procs |-> NoLocals]
    /\ result = [p \in Procs |-> "none"]
    /\ log = [p \in Procs |-> <<>>]
    /\ pre = [p \in Procs |-> NoPre]
    /\ migrations = {migration_registry[i] : i \in DOMAIN migration_registry}
    /\ archived_column = TRUE
    /\ account_fk \in AccountFkTables

\* One statement of one caller.  The bounds of the model stop the inserts.
Step(p) ==
    \/ \E name \in CategoryNames, parent_id \in ParentIds(cat_seq) :
          cat_seq < MaxCatId /\ add_category(p, name, parent_id)
    \/ \E category_id \in Ids(cat_seq), name \in CategoryNames,
          parent_id \in ParentIds(cat_seq) :
          update_category(p, category_id, name, parent_id)
    \/ \E category_id \in Ids(cat_seq), fault \in Faults :
          select_children(p, category_id, fault)
    \/ \E fault \in Faults : select_parent(p, fault)
    \/ \E fault \in Faults : update_children(p, fault)
    \/ \E fault \in Faults : select_uncategorized(p, fault)
    \/ \E fault \in Faults : update_transactions(p, fault)
    \/ \E fault \in Faults : delete_row(p, fault)
    \/ \E name \in AccountNames, account_type \in AccountTypes :
          acc_seq < MaxAccId /\ add_account(p, name, account_type)
    \/ \E account_id \in Ids(acc_seq), in \in TransactionInputs,
          category_id \in Ids(cat_seq) :
          tx_seq < MaxTxId /\ add_transaction(p, account_id, in, category_id)
    \/ \E transaction_id \in Ids(tx_seq), account_id \in Ids(acc_seq),
          in \in TransactionInputs, category_id \in Ids(cat_seq) :
          update_transaction(p, transaction_id, account_id, in, category_id)
    \/ \E transaction_id \in Ids(tx_seq) : delete_transaction(p, transaction_id)
    \/ Return(p)

\* Calls one at a time: a call starts when no other call is in flight.
Next == \E p \in SeqProcs : Step(p)

Spec == Init /\ [][Next]_vars

\* The accounts and the transactions alone, over the seeded categories.
LedgerStep(p) ==
    \/ \E name \in AccountNames, account_type \in AccountTypes :
          acc_seq < MaxAccId /\ add_account(p, name, account_type)
    \/ \E account_id \in Ids(acc_seq), in \in TransactionInputs,
          category_id \in Ids(cat_seq) :
          tx_seq < MaxLedgerTxId /\ add_transaction(p, account_id, in, category_id)
    \/ \E transaction_id \in Ids(tx_seq), account_id \in Ids(acc_seq),
          in \in TransactionInputs, category_id \in Ids(cat_seq) :
          update_transaction(p, transaction_id, account_id, in, category_id)
    \/ \E transaction_id \in Ids(tx_seq) : delete_transaction(p, transaction_id)
    \/ Return(p)

LedgerNext == \E p \in SeqProcs : LedgerStep(p)

LedgerSpec == Init /\ [][LedgerNext]_vars

\* The database file right after create_tables made it: every table empty,
\* accounts without the column archived, no migration recorded.
FreshInit ==
    /\ categories = <<>>
    /\ cat_seq = 0
    /\ accounts = <<>>
    /\ acc_seq = 0
    /\ transactions = <<>>
    /\ tx_seq = 0
    /\ pc = [p \in Procs |-> "idle"]
    /\ call = [p \in Procs |-> NoCall]
    /\ locals = [p \in Procs |-> NoLocals]
    /\ result = [p \in Procs |-> "none"]
    /\ log = [p \in Procs |-> <<>>]
    /\ pre = [p \in Procs |-> NoPre]
    /\ migrations = {}
    /\ archived_column = FALSE
    /\ account_fk \in AccountFkTables

\* main serves commands once init_db has returned Ok, that is once a run of
\* run_migrations has recorded the last name of the registry.
InitDbSucceeded ==
    \A i \in DOMAIN migration_registry : migration_registry[i] \in migrations

\* The starts of the application (each runs run_migrations) and the account
\* commands between them.
MigrationStep(p) ==
    \/ \E fault \in Faults : get_applied_migrations(p, fault)
    \/ \E fault \in Faults : execute_migration(p, fault)
    \/ \E fault \in Faults : record_migration(p, fault)
    \/ \E name \in AccountNames, account_type \in AccountTypes :
          InitDbSucceeded /\ acc_seq < MaxMigrationAccId /\ add_account(p, name, account_type)
    \/ \E account_id \in Ids(acc_seq), name \in AccountNames,
          account_type \in AccountTypes, archived \in BOOLEAN :
          InitDbSucceeded /\ update_account(p, account_id, name, account_type, archived)
    \/ Return(p)

MigrationNext == \E p \in SeqProcs : MigrationStep(p)

MigrationSpec == FreshInit /\ [][MigrationNext]_vars

\* A database in use: the chain of categories 2 <- 3 <- 4 beside
\* "Uncategorized" (1), or without it after a delete_category(1); one
\* account and, where the schema lets transactions in, one transaction of
\* category 3.
ChainInit ==
    /\ categories \in
          { (1 :> [name |-> "Uncategorized", parent_id |-> NULL]
             @@ 2 :> [name |-> "Food", parent_id |-> NULL]
             @@ 3 :> [name |-> "Food", parent_id |-> 2]
             @@ 4 :> [name |-> "Food", parent_id |-> 3]),
            (2 :> [name |-> "Food", parent_id |-> NULL]
             @@ 3 :> [name |-> "Food", parent_id |-> 2]
             @@ 4 :> [name |-> "Food", parent_id |-> 3]) }
    /\ cat_seq = 4
    /\ accounts = (1 :> [name |-> "Test Account", account_type |-> "checking",
                         archived |-> FALSE])
    /\ acc_seq = 1
    /\ account_fk \in AccountFkTables
    /\ transactions =
          IF account_fk \in TableNames
          THEN (1 :> TransactionRow(1, [amount_cents |-> 1000, transaction_type |-> "debit",
                                        description |-> "Original Description",
                                        transaction_date |-> "2025-01-01"], 3))
          ELSE <<>>
    /\ tx_seq = IF account_fk \in TableNames THEN 1 ELSE 0
    /\ pc = [p \in Procs |-> "idle"]
    /\ call = [p \in Procs |-> NoCall]
    /\ locals = [p \in Procs |-> NoLocals]
    /\ result = [p \in Procs |-> "none"]
    /\ log = [p \in Procs |-> <<>>]
    /\ pre = [p \in Procs |-> NoPre]
    /\ migrations = {migration_registry[i] : i \in DOMAIN migration_registry}
    /\ archived_column = TRUE

\* The storage engine fails no statement.
NoFault == FALSE

\* A statement of the one command caller p invokes; the statements of the
\* callers' commands interleave.
ConcurrentStep(p) ==
    \/ \E name \in CategoryNames, parent_id \in ParentIds(cat_seq) :
          add_category(p, name, parent_id)
    \/ \E category_id \in Ids(cat_seq), name \in CategoryNames,
          parent_id \in ParentIds(cat_seq) :
          update_category(p, category_id, name, parent_id)
    \/ \E category_id \in Ids(cat_seq) : select_children(p, category_id, NoFault)
    \/ select_parent(p, NoFault)
    \/ update_children(p, NoFault)
    \/ select_uncategorized(p, NoFault)
    \/ update_transactions(p, NoFault)
    \/ delete_row(p, NoFault)
    \/ \E account_id \in Ids(acc_seq), in \in TransactionInputs,
          category_id \in Ids(cat_seq) :
          add_transaction(p, account_id, in, category_id)
    \/ \E transaction_id \in Ids(tx_seq), account_id \in Ids(acc_seq),
          in \in TransactionInputs, category_id \in Ids(cat_seq) :
          update_transaction(p, transaction_id, account_id, in, category_id)
    \/ get_all_categories(p)
    \/ \E account_id \in Ids(acc_seq) : get_transactions(p, account_id)

\* Two commands in flight at once, one of each caller.
ConcurrentNext == \E p \in Procs : ConcurrentStep(p)

ConcurrentSpec == ChainInit /\ [][ConcurrentNext]_vars

----------------------------------------------------------------------------
(* The calls the properties speak of.                                       *)

\* Caller p's delete_category has returned.
DeleteDone(p) == pc[p] = "done" /\ call[p].op = "delete_category"

\* Caller p's delete_category has been called and has not been handed back.
DeleteInFlight(p) == pc[p] # "idle" /\ call[p].op = "delete_category"

\* The category the call deletes, and what the tables held when it was called.
Target(p) == call[p].category_id
TargetExisted(p) == Target(p) \in DOMAIN pre[p].categories
PreChildren(p) ==
    {c \in DOMAIN pre[p].categories :
        c # Target(p) /\ pre[p].categories[c].parent_id = Target(p)}
PreTransactions(p) ==
    {t \in DOMAIN pre[p].transactions : pre[p].transactions[t].category_id = Target(p)}

----------------------------------------------------------------------------
\* C1: a delete_category(C) of an existing category that returns Ok leaves no
\* row C and leaves every other category that had parent C with the parent C
\* had (none when C was a root).
C1_ChildrenInheritParent ==
    \A p \in Procs :
        (DeleteDone(p) /\ result[p] = "Ok" /\ TargetExisted(p)) =>
            /\ Target(p) \notin DOMAIN categories
            /\ \A c \in PreChildren(p) :
                  /\ c \in DOMAIN categories
                  /\ categories[c].parent_id = pre[p].categories[Target(p)].parent_id

\* A middle category was deleted: it had a parent, and a child that is not
\* that parent.
C1_Witness ==
    \E p \in Procs :
        /\ DeleteDone(p) /\ result[p] = "Ok" /\ TargetExisted(p)
        /\ pre[p].categories[Target(p)].parent_id \notin {NULL, Target(p)}
        /\ PreChildren(p) \ {pre[p].categories[Target(p)].parent_id} # {}

\* C2: after a delete_category(C) that returns Ok, every transaction that had
\* category C has the id the lookup of the name "Uncategorized" gives, and
\* that row exists and bears the name.
C2_TransactionsToUncategorized ==
    \A p \in Procs :
        (DeleteDone(p) /\ result[p] = "Ok") =>
            \A t \in PreTransactions(p) :
                /\ t \in DOMAIN transactions
                /\ transactions[t].category_id = Min(UncategorizedRows(pre[p].categories))
                /\ transactions[t].category_id \in DOMAIN categories
                /\ categories[transactions[t].category_id].name = "Uncategorized"

C2_Witness ==
    \E p \in Procs :
        /\ DeleteDone(p) /\ result[p] = "Ok" /\ TargetExisted(p)
        /\ PreTransactions(p) # {}

\* C3: every transaction's category_id is the id of a category row.
C3_TransactionCategoryExists ==
    \A t \in DOMAIN transactions : transactions[t].category_id \in DOMAIN categories

\* Transactions were moved off a deleted category, to a row other than the
\* seeded one.
C3_Witness ==
    \E p \in Procs :
        /\ DeleteDone(p) /\ result[p] = "Ok"
        /\ \E t \in PreTransactions(p) : transactions[t].category_id # 1
        /\ \A t \in DOMAIN transactions : transactions[t].category_id \in DOMAIN categories

\* C4: a category named "Uncategorized" exists.
C4_UncategorizedExists == UncategorizedRows(categories) # {}

\* C5: a delete_category whose category_id names a category called
\* "Uncategorized" does not remove that row.
C5_UncategorizedNotDeleted ==
    \A p \in Procs :
        (DeleteInFlight(p) /\ TargetExisted(p)
            /\ pre[p].categories[Target(p)].name = "Uncategorized") =>
            Target(p) \in DOMAIN categories

\* C6: a delete_category whose category_id names no category row returns an
\* error.
C6_MissingRowIsError ==
    \A p \in Procs : (DeleteDone(p) /\ ~TargetExisted(p)) => result[p] # "Ok"

\* What delete_category does with a category_id that names no row: it changes
\* no table, and returns Ok unless the storage engine fails one of its
\* statements or no category is named "Uncategorized".
C6_MissingRowIsNoOp ==
    \A p \in Procs :
        (DeleteDone(p) /\ ~TargetExisted(p)) =>
            /\ Tables = pre[p]
            /\ result[p] = "Ok" <=>
                  /\ \A i \in 1..Len(log[p]) : log[p][i].outcome # "Io"
                  /\ UncategorizedRows(pre[p].categories) # {}

\* A category deleted earlier was deleted again, and the call returned Ok.
C6_Witness ==
    \E p \in Procs :
        /\ DeleteDone(p) /\ ~TargetExisted(p) /\ result[p] = "Ok"
        /\ Target(p) <= cat_seq

\* C7: while and after delete_category(C) runs, no category appears, none but
\* C disappears, every category keeps its name, and every category whose
\* parent was not C keeps its parent.
C7_SingleLevelSplice ==
    \A p \in Procs :
        DeleteInFlight(p) =>
            /\ DOMAIN categories \subseteq DOMAIN pre[p].categories
            /\ DOMAIN pre[p].categories \ {Target(p)} \subseteq DOMAIN categories
            /\ \A c \in DOMAIN categories :
                  /\ categories[c].name = pre[p].categories[c].name
                  /\ pre[p].categories[c].parent_id # Target(p) =>
                        categories[c].parent_id = pre[p].categories[c].parent_id

\* A category with a child and a grandchild was deleted: the grandchild's
\* parent is still the child.
C7_Witness ==
    \E p \in Procs :
        /\ DeleteDone(p) /\ result[p] = "Ok" /\ TargetExisted(p)
        /\ \E c \in PreChildren(p) :
              \E g \in DOMAIN categories \ {c} :
                  pre[p].categories[g].parent_id = c /\ categories[g].parent_id = c

\* A call's statements all had an answer from the storage engine.
NoStorageFailure(p) == \A i \in 1..Len(log[p]) : log[p][i].outcome # "Io"

\* C8: a delete_category(C) of an existing category that no other category
\* had as parent and no transaction had as category, none of whose statements
\* the storage engine failed, removes row C: the number of categories drops
\* by one, and no other category, no transaction and no account changes.
C8_LeafDeleteRemovesRow ==
    \A p \in Procs :
        (DeleteDone(p) /\ TargetExisted(p) /\ PreChildren(p) = {}
            /\ PreTransactions(p) = {} /\ NoStorageFailure(p)) =>
            /\ result[p] = "Ok"
            /\ DOMAIN categories = DOMAIN pre[p].categories \ {Target(p)}
            /\ Cardinality(DOMAIN categories) = Cardinality(DOMAIN pre[p].categories) - 1
            /\ \A c \in DOMAIN categories : categories[c] = pre[p].categories[c]
            /\ transactions = pre[p].transactions
            /\ accounts = pre[p].accounts

\* What delete_category does with such a category: when it returns Ok it has
\* removed row C and changed nothing else, and it returns Ok if no statement
\* failed and a category named "Uncategorized" existed; when it returns an
\* error it has changed nothing.
C8_LeafDeleteRemovesOnlyRow ==
    \A p \in Procs :
        (DeleteDone(p) /\ TargetExisted(p) /\ PreChildren(p) = {} /\ PreTransactions(p) = {}) =>
            /\ transactions = pre[p].transactions
            /\ accounts = pre[p].accounts
            /\ result[p] = "Ok" =>
                  /\ DOMAIN categories = DOMAIN pre[p].categories \ {Target(p)}
                  /\ Cardinality(DOMAIN categories) = Cardinality(DOMAIN pre[p].categories) - 1
                  /\ \A c \in DOMAIN categories : categories[c] = pre[p].categories[c]
            /\ result[p] # "Ok" => categories = pre[p].categories
            /\ (NoStorageFailure(p) /\ UncategorizedRows(pre[p].categories) # {}) =>
                  result[p] = "Ok"

\* A category without children or transactions was deleted while others and
\* a transaction stayed.
C8_Witness ==
    \E p \in Procs :
        /\ DeleteDone(p) /\ result[p] = "Ok" /\ TargetExisted(p)
        /\ PreChildren(p) = {} /\ PreTransactions(p) = {}
        /\ DOMAIN transactions # {}
        /\ Cardinality(DOMAIN categories) >= 2

\* C9: every category's parent_id is NULL or the id of a category row, and
\* after a delete_category(C) that returns Ok no category has parent C.
C9_ParentExists ==
    /\ \A c \in DOMAIN categories :
          categories[c].parent_id = NULL \/ categories[c].parent_id \in DOMAIN categories
    /\ \A p \in Procs :
          (DeleteDone(p) /\ result[p] = "Ok") =>
              \A c \in DOMAIN categories : categories[c].parent_id # Target(p)

\* A category with children was deleted.
C9_Witness ==
    \E p \in Procs :
        /\ DeleteDone(p) /\ result[p] = "Ok" /\ TargetExisted(p)
        /\ PreChildren(p) # {}
        /\ \E c \in PreChildren(p) : categories[c].parent_id = NULL

\* C10: in delete_category no statement follows a failed one, the call
\* returns the error of the statement that failed, and it returns Ok only
\* if every statement it issued succeeded.
C10_FailureStopsCall ==
    \A p \in Procs :
        DeleteInFlight(p) =>
            /\ \A i \in 1..(Len(log[p]) - 1) : log[p][i].outcome = "Ok"
            /\ log[p][Len(log[p])].outcome # "Ok" =>
                  pc[p] = "done" /\ result[p] = log[p][Len(log[p])].outcome
            /\ result[p] = "Ok" => \A i \in 1..Len(log[p]) : log[p][i].outcome = "Ok"
            /\ pc[p] = "done" => result[p] = log[p][Len(log[p])].outcome

\* The re-parenting succeeded and a later statement failed: the call
\* returned that error.
C10_Witness ==
    \E p \in Procs :
        /\ DeleteDone(p) /\ result[p] # "Ok"
        /\ Len(log[p]) >= 4
        /\ log[p][3].stmt = "update_children"

----------------------------------------------------------------------------
\* No category bore the name "Uncategorized" when the call was made.
NoUncategorizedAtCall(p) ==
    \A c \in DOMAIN pre[p].categories : pre[p].categories[c].name # "Uncategorized"

\* The call has issued the lookup that opens handle_orphaned_transactions.
ReachedReassignment(p) ==
    \E i \in 1..Len(log[p]) : log[p][i].stmt = "select_uncategorized"

\* C11: a delete_category(C) that reaches the reassignment of transactions
\* while no category is named "Uncategorized" ends there with an error
\* (RowNotFound, or the storage failure of the lookup): no transaction is
\* modified and row C, if there was one, is still there.
C11_MissingUncategorizedFails ==
    \A p \in Procs :
        (DeleteInFlight(p) /\ NoUncategorizedAtCall(p) /\ ReachedReassignment(p)) =>
            /\ pc[p] = "done"
            /\ result[p] \in {"RowNotFound", "Io"}
            /\ log[p][Len(log[p])].stmt = "select_uncategorized"
            /\ transactions = pre[p].transactions
            /\ TargetExisted(p) => Target(p) \in DOMAIN categories

\* The lookup found no row after the children of C had been re-parented,
\* while a transaction was filed under C.
C11_Witness ==
    \E p \in Procs :
        /\ DeleteDone(p) /\ NoUncategorizedAtCall(p) /\ TargetExisted(p)
        /\ result[p] = "RowNotFound"
        /\ PreChildren(p) # {}
        /\ PreTransactions(p) # {}
        /\ categories # pre[p].categories

----------------------------------------------------------------------------
\* The category the n-th parent_id reference from c leads to; NULL past a root.
RECURSIVE Ancestor(_, _, _)
Ancestor(cats, c, n) ==
    IF n = 0 THEN c
    ELSE LET a == Ancestor(cats, c, n - 1)
         IN IF a \in DOMAIN cats THEN cats[a].parent_id ELSE NULL

\* Following parent_id from any category ends at a root: a chain without a
\* cycle has at most as many references as there are categories.
Acyclic(cats) ==
    \A c \in DOMAIN cats : Ancestor(cats, c, Cardinality(DOMAIN cats)) = NULL

\* C12: following parent_id references from any category terminates at a
\* root: no category is its own ancestor or its own parent.
C12_NoParentCycle == Acyclic(categories)

----------------------------------------------------------------------------
----------------------------------------------------------------------------
(* Steps of the functions of one statement.                                 *)

\* In this step caller p calls op, and the call ends.
Calls(p, op) == pc[p] = "idle" /\ pc'[p] = "done" /\ call'[p].op = op

\* The call names an account or a category that has no row.
BadReference(c) ==
    \/ c.row.account_id \notin DOMAIN accounts
    \/ c.row.category_id \notin DOMAIN categories

C14_BadReferenceNeverStored ==
    [][\A p \in Procs :
          ((Calls(p, "add_transaction") \/ Calls(p, "update_transaction"))
              /\ BadReference(call'[p])) =>
              /\ transactions' = transactions
              /\ result'[p] = "Ok" =>
                    /\ call'[p].op = "update_transaction"
                    /\ call'[p].transaction_id \notin DOMAIN transactions]_vars

\* C15: delete_transaction(id) removes no row but the transaction with that
\* id and changes no other row: every category, every account and every other
\* transaction stays as it was.
C15_DeleteTransactionFrame ==
    [][\A p \in Procs :
          Calls(p, "delete_transaction") =>
              /\ categories' = categories
              /\ accounts' = accounts
              /\ DOMAIN transactions' \subseteq DOMAIN transactions
              /\ DOMAIN transactions \ {call'[p].transaction_id} \subseteq DOMAIN transactions'
              /\ \A t \in DOMAIN transactions' : transactions'[t] = transactions[t]
              /\ result'[p] = "Ok" => call'[p].transaction_id \notin DOMAIN transactions'
              /\ <<cat_seq, acc_seq, tx_seq>>' = <<cat_seq, acc_seq, tx_seq>>]_vars

\* One of two transactions was deleted and the other is there.
C15_Witness ==
    \E p \in Procs :
        /\ pc[p] = "done" /\ call[p].op = "delete_transaction" /\ result[p] = "Ok"
        /\ call[p].transaction_id <= tx_seq
        /\ call[p].transaction_id \notin DOMAIN transactions
        /\ DOMAIN transactions # {}

\* C16: an update_category whose category_id names no category row returns
\* an error.
C16_UpdateMissingCategoryIsError ==
    \A p \in Procs :
        (pc[p] = "done" /\ call[p].op = "update_category"
            /\ call[p].category_id \notin DOMAIN categories) =>
            result[p] # "Ok"

\* C17: an update_category(id, name, parent) on an existing category leaves
\* the set of category ids, every other category, every transaction and every
\* account as they were; when it returns Ok the category has the given name
\* and parent_id, when it returns an error (the parent names no category) the
\* category is unchanged too.
C17_UpdateCategoryFrame ==
    [][\A p \in Procs :
          (Calls(p, "update_category") /\ call'[p].category_id \in DOMAIN categories) =>
              LET c == call'[p]
              IN /\ DOMAIN categories' = DOMAIN categories
                 /\ \A d \in DOMAIN categories \ {c.category_id} :
                       categories'[d] = categories[d]
                 /\ transactions' = transactions
                 /\ accounts' = accounts
                 /\ result'[p] = "Ok" =>
                       categories'[c.category_id] = [name |-> c.name, parent_id |-> c.parent_id]
                 /\ result'[p] # "Ok" => categories' = categories
                 /\ result'[p] = "Ok" <=>
                       (c.parent_id = NULL \/ c.parent_id \in DOMAIN categories)]_vars

\* A category that a transaction is filed under, one of several, was renamed
\* and given a parent.
C17_Witness ==
    \E p \in Procs :
        /\ pc[p] = "done" /\ call[p].op = "update_category" /\ result[p] = "Ok"
        /\ call[p].category_id \in DOMAIN categories
        /\ categories[call[p].category_id] = [name |-> "Food", parent_id |-> 1]
        /\ call[p].category_id # 1
        /\ Cardinality(DOMAIN categories) >= 3
        /\ \E t \in DOMAIN transactions : transactions[t].category_id = call[p].category_id

\* C18: an add_category(name, parent_id) that returns Ok adds exactly one
\* category row, whose id no category has or has had, with the given name and
\* the given parent_id (NULL when none is given), and leaves every existing
\* category, every transaction and every account as it was.
C18_AddCategoryAddsOneRow ==
    [][\A p \in Procs :
          (Calls(p, "add_category") /\ result'[p] = "Ok") =>
              LET c == call'[p]
                  added == DOMAIN categories' \ DOMAIN categories
              IN /\ Cardinality(added) = 1
                 /\ \A n \in added :
                       /\ n > cat_seq
                       /\ categories'[n] = [name |-> c.name, parent_id |-> c.parent_id]
                 /\ \A d \in DOMAIN categories :
                       d \in DOMAIN categories' /\ categories'[d] = categories[d]
                 /\ transactions' = transactions
                 /\ accounts' = accounts]_vars

\* A category was added below another one after an earlier category had been
\* deleted, while a transaction existed.
C18_Witness ==
    \E p \in Procs :
        /\ pc[p] = "done" /\ call[p].op = "add_category" /\ result[p] = "Ok"
        /\ call[p].parent_id \notin {NULL, cat_seq}
        /\ cat_seq \in DOMAIN categories
        /\ categories[cat_seq] = [name |-> call[p].name, parent_id |-> call[p].parent_id]
        /\ Cardinality(DOMAIN categories) < cat_seq
        /\ transactions # <<>>

----------------------------------------------------------------------------
(* C19: each registered migration's schema change is executed once and is  *)
(* never attempted again once it has been executed, whatever happened to   *)
(* the call that executed it: no call issues the statement of a migration  *)
(* whose change the schema already has.                                     *)
C19_MigrationNeverAttemptedAgain ==
    [][\A p \in Procs :
          (pc[p] = "execute_migration" /\ pc'[p] # "execute_migration")
          => ~SchemaChanged(migration_registry[locals[p].migration])]_vars

\* What the code does keep: a migration that has been recorded is not
\* executed by any later call.
C19_RecordedMigrationNotExecuted ==
    [][\A p \in Procs :
          (pc[p] = "execute_migration" /\ pc'[p] # "execute_migration")
          => migration_registry[locals[p].migration] \notin migrations]_vars

\* A call found the migration executed but not recorded and attempted it.
C19_AttemptedAgain ==
    \E p \in Procs :
        /\ pc[p] = "done"
        /\ call[p].op = "run_migrations"
        /\ result[p] = "DuplicateColumn"
        /\ migrations = {}

----------------------------------------------------------------------------
\* The position in caller p's log of the statement stmt, 0 when the call has
\* not issued it.
Issued(p, stmt) ==
    LET at == {i \in 1..Len(log[p]) : log[p][i].stmt = stmt}
    IN IF at = {} THEN 0 ELSE Min(at)

\* The call issued stmt and the statement succeeded.
Succeeded(p, stmt) ==
    Issued(p, stmt) # 0 /\ log[p][Issued(p, stmt)].outcome = "Ok"

\* C20: a delete_category issues its DELETE only after the re-parenting and
\* the reassignment of the transactions have both completed successfully,
\* and the re-parenting comes before the reassignment: when the DELETE is in
\* the log, the read of the children succeeded before it, with children the
\* reads of the parent and the update of the children succeeded, then the
\* read of "Uncategorized" and the update of the transactions succeeded, in
\* this order.
C20_DeleteIssuedLast ==
    \A p \in Procs :
        (DeleteInFlight(p) /\ Issued(p, "delete_row") # 0) =>
            /\ Succeeded(p, "select_children")
            /\ ChildrenOf(pre[p].categories, Target(p)) # {} =>
                  /\ Succeeded(p, "select_parent")
                  /\ Succeeded(p, "update_children")
                  /\ Issued(p, "select_children") < Issued(p, "select_parent")
                  /\ Issued(p, "select_parent") < Issued(p, "update_children")
                  /\ Issued(p, "update_children") < Issued(p, "select_uncategorized")
            /\ Succeeded(p, "select_uncategorized")
            /\ Succeeded(p, "update_transactions")
            /\ Issued(p, "select_children") < Issued(p, "select_uncategorized")
            /\ Issued(p, "select_uncategorized") < Issued(p, "update_transactions")
            /\ Issued(p, "update_transactions") < Issued(p, "delete_row")
            /\ Issued(p, "delete_row") = Len(log[p])

\* A delete of a category with a child and a transaction has issued its
\* DELETE, the sixth statement of the call.
C20_Witness ==
    \E p \in Procs :
        /\ DeleteDone(p)
        /\ PreChildren(p) # {}
        /\ PreTransactions(p) # {}
        /\ Issued(p, "delete_row") = 6
        /\ result[p] = "Ok"

----------------------------------------------------------------------------
\* C21: delete_category is not atomic on failure, the statements that
\* succeeded are not rolled back: when a delete_category(C) of an existing
\* category has returned an error after its update of the children
\* succeeded, row C is still there and every former child of C has C's
\* parent as parent_id; when the failed statement is the DELETE, every
\* former transaction of C points at a category named "Uncategorized".
C21_FailedDeleteNotRolledBack ==
    \A p \in Procs :
        (/\ DeleteDone(p)
         /\ result[p] # "Ok"
         /\ TargetExisted(p)
         /\ Succeeded(p, "update_children")) =>
            /\ Target(p) \in DOMAIN categories
            /\ \A c \in PreChildren(p) :
                  /\ c \in DOMAIN categories
                  /\ categories[c].parent_id = pre[p].categories[Target(p)].parent_id
            /\ Issued(p, "delete_row") # 0 =>
                  \A t \in PreTransactions(p) :
                      /\ t \in DOMAIN transactions
                      /\ transactions[t].category_id \in DOMAIN categories
                      /\ categories[transactions[t].category_id].name = "Uncategorized"

\* The DELETE of a category with a child and a transaction failed: the row
\* is there, its child and its transaction are already repointed.
C21_Witness ==
    \E p \in Procs :
        /\ DeleteDone(p)
        /\ result[p] # "Ok"
        /\ Issued(p, "delete_row") # 0
        /\ Target(p) \in DOMAIN categories
        /\ \E c \in PreChildren(p) : categories[c].parent_id # Target(p)
        /\ \E t \in PreTransactions(p) : transactions[t].category_id # Target(p)

----------------------------------------------------------------------------
\* C27: the category a delete_category(C) reassigns C's transactions to is
\* never C itself: the id the lookup of "Uncategorized" returned, which the
\* update of the transactions is about to bind, is not C.
C27_ReassignTargetIsNotC ==
    \A p \in Procs :
        (DeleteInFlight(p) /\ pc[p] = "update_transactions") =>
            locals[p].uncategorized_id # Target(p)

\* What the lookup does guarantee: the id it returns is that of a row named
\* "Uncategorized" at the time of the lookup, the first in rowid order.
C27_ReassignTargetIsNamedUncategorized ==
    [][\A p \in Procs :
          (pc[p] = "select_uncategorized" /\ pc'[p] = "update_transactions") =>
              /\ locals'[p].uncategorized_id \in DOMAIN categories
              /\ categories[locals'[p].uncategorized_id].name = "Uncategorized"
              /\ \A c \in DOMAIN categories :
                    categories[c].name = "Uncategorized" =>
                        locals'[p].uncategorized_id <= c]_vars

----------------------------------------------------------------------------
\* C28: a delete_category(C) of a category whose own parent_id is C, run on
\* a database that has "Uncategorized" and no statement of which the storage
\* engine failed, detaches C's other children: once it has returned no other
\* category has parent_id = C.
C28_SelfParentedChildrenDetached ==
    \A p \in Procs :
        (/\ DeleteDone(p)
         /\ TargetExisted(p)
         /\ pre[p].categories[Target(p)].parent_id = Target(p)
         /\ UncategorizedRows(pre[p].categories) # {}
         /\ NoStorageFailure(p)) =>
            \A c \in DOMAIN categories \ {Target(p)} :
                categories[c].parent_id # Target(p)

\* What the code does for a self-parented category with other children: the
\* children keep parent_id = C, the DELETE is refused and the row stays.
C28_SelfParentedDeleteRefused ==
    \A p \in Procs :
        (/\ DeleteDone(p)
         /\ TargetExisted(p)
         /\ pre[p].categories[Target(p)].parent_id = Target(p)
         /\ PreChildren(p) # {}
         /\ NoStorageFailure(p)
         /\ UncategorizedRows(pre[p].categories) # {}) =>
            /\ result[p] = "Constraint"
            /\ categories = pre[p].categories

----------------------------------------------------------------------------
\* C29: delete_category preserves acyclicity: when the parent relation had
\* no cycle at the call of delete_category(C), it has none after any
\* statement of the call, whether the statement succeeded or failed.
C29_DeletePreservesAcyclicity ==
    \A p \in Procs :
        (DeleteInFlight(p) /\ Acyclic(pre[p].categories)) => Acyclic(categories)

\* A category in the middle of a chain of three has been deleted.
C29_Witness ==
    \E p \in Procs :
        /\ DeleteDone(p)
        /\ result[p] = "Ok"
        /\ Acyclic(pre[p].categories)
        /\ PreChildren(p) # {}
        /\ pre[p].categories[Target(p)].parent_id # NULL
        /\ Target(p) \notin DOMAIN categories

----------------------------------------------------------------------------
\* C30: delete_category(C) creates and removes no transaction and no
\* account and writes no transaction column but category_id: at every point
\* of the call the accounts are those of the call's start, the transaction
\* ids are the same, a transaction whose category was not C is the row it
\* was, and every transaction has the account_id, amount_cents,
\* transaction_type, description and transaction_date it had.
C30_DeleteCategoryFrame ==
    \A p \in Procs :
        DeleteInFlight(p) =>
            /\ accounts = pre[p].accounts
            /\ DOMAIN transactions = DOMAIN pre[p].transactions
            /\ \A t \in DOMAIN pre[p].transactions :
                  /\ pre[p].transactions[t].category_id # Target(p)
                        => transactions[t] = pre[p].transactions[t]
                  /\ [transactions[t] EXCEPT !.category_id = NULL]
                        = [pre[p].transactions[t] EXCEPT !.category_id = NULL]

\* A delete has moved the transaction of the category to another category;
\* the account of the transaction is there.
C30_Witness ==
    \E p \in Procs :
        /\ DeleteDone(p)
        /\ result[p] = "Ok"
        /\ accounts # <<>>
        /\ \E t \in PreTransactions(p) :
              transactions[t].category_id # pre[p].transactions[t].category_id

----------------------------------------------------------------------------
(* Two commands in flight.                                                  *)

\* Caller q's command op has returned.
Returned(q, op) == pc[q] = "done" /\ call[q].op = op

\* The categories cats once the children of c have been given c's parent,
\* written out row by row.
ChildrenMoved(cats, c) ==
    [d \in DOMAIN cats |->
        IF cats[d].parent_id = c
        THEN [name |-> cats[d].name,
              parent_id |-> IF c \in DOMAIN cats THEN cats[c].parent_id ELSE NULL]
        ELSE cats[d]]

\* The rows of txs of one account.
OfAccount(txs, account_id) ==
    [t \in {u \in DOMAIN txs : txs[u].account_id = account_id} |-> txs[t]]

\* C22: the statements of a delete_category(C) are atomic one by one and the
\* call is not: a get_all_categories that runs beside it returns the
\* categories as they were at one of the call's statement boundaries, which
\* are the categories before the call, those with C's children re-parented
\* to C's parent and row C still present, and those with row C removed; a
\* get_transactions returns the account's transactions as they were, or with
\* those of C moved to a category named "Uncategorized".
C22_ReaderSeesStatementBoundary ==
    \A p \in Procs : \A q \in Procs \ {p} :
        DeleteInFlight(p) =>
            /\ Returned(q, "get_all_categories") =>
                  \/ locals[q].rows = pre[p].categories
                  \/ locals[q].rows = ChildrenMoved(pre[p].categories, Target(p))
                  \/ /\ DOMAIN locals[q].rows = DOMAIN pre[p].categories \ {Target(p)}
                     /\ \A d \in DOMAIN locals[q].rows :
                           locals[q].rows[d] =
                               ChildrenMoved(pre[p].categories, Target(p))[d]
            /\ Returned(q, "get_transactions") =>
                  \/ locals[q].rows = OfAccount(pre[p].transactions, call[q].account_id)
                  \/ \E u \in DOMAIN pre[p].categories :
                        /\ pre[p].categories[u].name = "Uncategorized"
                        /\ locals[q].rows =
                             OfAccount([t \in DOMAIN pre[p].transactions |->
                                          IF pre[p].transactions[t].category_id = Target(p)
                                          THEN [pre[p].transactions[t]
                                                  EXCEPT !.category_id = u]
                                          ELSE pre[p].transactions[t]],
                                       call[q].account_id)

\* A reader has the intermediate state in hand: a child of C already under
\* C's parent, row C present, while a transaction still references C.
C22_Witness ==
    \E p \in Procs : \E q \in Procs \ {p} :
        /\ DeleteInFlight(p)
        /\ pc[p] = "select_uncategorized"
        /\ Returned(q, "get_all_categories")
        /\ Target(p) \in DOMAIN locals[q].rows
        /\ \E c \in PreChildren(p) :
              /\ locals[q].rows[c].parent_id = pre[p].categories[Target(p)].parent_id
              /\ locals[q].rows[c].parent_id # Target(p)
        /\ \E t \in DOMAIN transactions : transactions[t].category_id = Target(p)

----------------------------------------------------------------------------
\* What one delete_category(c), no statement of which the storage engine
\* fails, leaves of the categories cats and the transactions txs: the
\* children moved; the transactions moved when a category is named
\* "Uncategorized"; the row removed when nothing references it any more.
SingleDeleteLeaves(cats, txs, c) ==
    LET moved == ChildrenMoved(cats, c)
        named == {u \in DOMAIN moved : moved[u].name = "Uncategorized"}
        txs2 == [t \in DOMAIN txs |->
                    IF txs[t].category_id = c
                    THEN [txs[t] EXCEPT !.category_id = Min(named)]
                    ELSE txs[t]]
        referenced == \/ \E t \in DOMAIN txs2 : txs2[t].category_id = c
                      \/ \E d \in DOMAIN moved \ {c} : moved[d].parent_id = c
    IN IF named = {}
       THEN [categories |-> moved, transactions |-> txs]
       ELSE IF referenced
       THEN [categories |-> moved, transactions |-> txs2]
       ELSE [categories |-> [d \in DOMAIN moved \ {c} |-> moved[d]],
             transactions |-> txs2]

\* C23: two delete_category(C) calls on the same existing category, their
\* statements interleaved in any order, both terminate (neither is ever
\* blocked and each issues at most six statements) and leave what a single
\* call leaves; when one of them returned Ok, C is absent, every former
\* child of C has C's original parent and every former transaction of C
\* points at a category named "Uncategorized".
C23_RacingDeletesAgree ==
    \A p \in Procs : \A q \in Procs \ {p} :
        (/\ DeleteInFlight(p) /\ DeleteInFlight(q)
         /\ Target(p) = Target(q)
         /\ TargetExisted(p)) =>
            /\ Len(log[p]) <= 6
            /\ pc[p] # "done" => ENABLED ConcurrentStep(p)
            /\ (pc[p] = "done" /\ pc[q] = "done") =>
                  /\ [categories |-> categories, transactions |-> transactions]
                       = SingleDeleteLeaves(pre[p].categories, pre[p].transactions,
                                            Target(p))
                  /\ (result[p] = "Ok" \/ result[q] = "Ok") =>
                        /\ Target(p) \notin DOMAIN categories
                        /\ \A c \in PreChildren(p) :
                              /\ c \in DOMAIN categories
                              /\ categories[c].parent_id
                                    = pre[p].categories[Target(p)].parent_id
                        /\ \A t \in PreTransactions(p) :
                              /\ t \in DOMAIN transactions
                              /\ transactions[t].category_id \in DOMAIN categories
                              /\ categories[transactions[t].category_id].name
                                    = "Uncategorized"

\* Both calls found the category with its child and its transaction, and
\* both have returned.
C23_Witness ==
    \E p \in Procs : \E q \in Procs \ {p} :
        /\ DeleteDone(p) /\ DeleteDone(q)
        /\ Target(p) = Target(q)
        /\ PreChildren(p) # {} /\ PreChildren(q) # {}
        /\ PreTransactions(p) # {} /\ PreTransactions(q) # {}
        /\ result[p] = "Ok" /\ result[q] = "Ok"

----------------------------------------------------------------------------
\* Every parent_id is NULL or names a row that is there.
ParentsExist ==
    \A c \in DOMAIN categories :
        categories[c].parent_id = NULL \/ categories[c].parent_id \in DOMAIN categories

\* C24: with delete_category(C) and delete_category(P) interleaved, P the
\* parent of C and G a child of C, no category ever has a parent_id that
\* names a row that is not there, and the parent read for C before P's
\* removal is not written into G after it: an update of the children that
\* succeeds writes NULL or the id of a row that is there.
C24_NoStaleParentWritten ==
    /\ []ParentsExist
    /\ [][\A p \in Procs :
             (pc[p] = "update_children" /\ pc'[p] = "select_uncategorized"
              /\ \E c \in DOMAIN categories : categories[c].parent_id = Target(p))
             => (locals[p].parent_id = NULL \/ locals[p].parent_id \in DOMAIN categories)]_vars

\* delete_category(C) read P as C's parent, delete_category(P) removed P, and
\* the update of C's children was refused: G is still under C.
C24_Witness ==
    \E p \in Procs : \E q \in Procs \ {p} :
        /\ DeleteDone(p) /\ DeleteDone(q)
        /\ TargetExisted(p)
        /\ Target(q) = pre[p].categories[Target(p)].parent_id
        /\ result[q] = "Ok"
        /\ Target(q) \notin DOMAIN categories
        /\ result[p] = "Constraint"
        /\ Issued(p, "update_children") = Len(log[p])
        /\ \E g \in PreChildren(p) : categories[g].parent_id = Target(p)

----------------------------------------------------------------------------
\* C25: when update_category(C, name, P2) runs between the read of C's
\* parent and the bulk re-parent of a delete_category(C), the children get
\* the parent C has then (P2), not the one read earlier: the parent_id the
\* update of the children writes is the parent_id of row C at that moment.
C25_ReparentUsesCurrentParent ==
    [][\A p \in Procs :
          (/\ pc[p] = "update_children" /\ pc'[p] = "select_uncategorized"
           /\ Target(p) \in DOMAIN categories
           /\ categories[Target(p)].parent_id # Target(p)
           /\ \E c \in DOMAIN categories \ {Target(p)} :
                 categories[c].parent_id = Target(p))
          => locals[p].parent_id = categories[Target(p)].parent_id]_vars

\* What the code writes: the parent_id it read, whatever row C holds now.
C25_ReparentUsesParentRead ==
    [][\A p \in Procs :
          (pc[p] = "update_children" /\ pc'[p] = "select_uncategorized")
          => \A c \in DOMAIN categories :
                categories[c].parent_id = Target(p)
                    => categories'[c].parent_id = locals[p].parent_id]_vars

\* The children were given the parent read before update_category changed it.
C25_StaleParentWritten ==
    \E p \in Procs : \E q \in Procs \ {p} :
        /\ DeleteInFlight(p)
        /\ pc[p] = "select_uncategorized"
        /\ Returned(q, "update_category")
        /\ call[q].category_id = Target(p)
        /\ result[q] = "Ok"
        /\ Target(p) \in DOMAIN categories
        /\ categories[Target(p)].parent_id = call[q].parent_id
        /\ \E c \in PreChildren(p) :
              /\ categories[c].parent_id = pre[p].categories[Target(p)].parent_id
              /\ categories[c].parent_id # categories[Target(p)].parent_id

----------------------------------------------------------------------------
\* C26: a delete_category(C) of an existing category never returns success
\* while a transaction has category_id = C or a category has parent_id = C,
\* whatever add_transaction, update_transaction, add_category or
\* update_category ran between its reassignments and its DELETE.
C26_NoSuccessWithReferences ==
    \A p \in Procs :
        (DeleteDone(p) /\ result[p] = "Ok" /\ TargetExisted(p)) =>
            /\ \A t \in DOMAIN transactions : transactions[t].category_id # Target(p)
            /\ \A c \in DOMAIN categories : categories[c].parent_id # Target(p)

\* A command made a row reference C after the reassignments of a
\* delete_category(C), and the DELETE was refused.
C26_Witness ==
    \E p \in Procs : \E q \in Procs \ {p} :
        /\ DeleteDone(p)
        /\ result[p] = "Constraint"
        /\ Issued(p, "delete_row") = Len(log[p])
        /\ pc[q] = "done" /\ result[q] = "Ok"
        /\ \/ /\ call[q].op \in {"add_transaction", "update_transaction"}
              /\ call[q].row.category_id = Target(p)
           \/ /\ call[q].op \in {"add_category", "update_category"}
              /\ call[q].parent_id = Target(p)

====
